---- MODULE Spec2Model ----
(***************************************************************************)
(* Token balance hook of the extension UI: useTokenBalanceForAccount, its  *)
(* request key, its fetcher, the pending-transaction effect, and the error *)
(* classifier errorToMessage.                                              *)
(*                                                                         *)
(* A JavaScript string is a sequence of one-character strings; a piece of  *)
(* literal text that no operation looks into is one element of it.         *)
(* An optional string (string | undefined) is [def, s].                    *)
(***************************************************************************)
EXTENDS Integers, Sequences, FiniteSets, TLC

\* ------------------------------------------------------------------ bounds
MaxCompLen == 3        \* longest network id given to the key builder
MaxAddrLen == 1        \* longest address given to the key builder
MaxWords == 3          \* most words of an error message given to the classifier
MaxPending == 1        \* largest pending-transaction count
MaxFetches == 3        \* most balance queries started in one run

\* ----------------------------------------------------------- JS values
Undefined == [def |-> FALSE, s |-> <<>>]
Str(chars) == [def |-> TRUE, s |-> chars]
\* Boolean(v) of a string | undefined: "" and undefined are falsy
Truthy(v) == v.def /\ v.s # <<>>

RECURSIVE SelectTruthy(_)
SelectTruthy(parts) ==
  IF parts = <<>> THEN <<>>
  ELSE IF Truthy(Head(parts)) THEN <<Head(parts)>> \o SelectTruthy(Tail(parts))
  ELSE SelectTruthy(Tail(parts))

\* Array.prototype.join over strings (every element is a defined string here)
RECURSIVE Join(_, _)
Join(parts, sep) ==
  IF parts = <<>> THEN <<>>
  ELSE IF Len(parts) = 1 THEN Head(parts).s
  ELSE Head(parts).s \o sep \o Join(Tail(parts), sep)

\* --------------------------------------------------------- request key
\* a key builder that leaves the network id out
keyNoNetwork(tokenAddress, networkId, accountAddress, multicallAddress) ==
  Join(SelectTruthy(<<Str(<<"balanceOf">>), tokenAddress, accountAddress,
                      multicallAddress>>), <<"-">>)

\* ["balanceOf", token.address, token.networkId, account.address,
\*  account.network.multicallAddress].filter(Boolean).join("-")
key(tokenAddress, networkId, accountAddress, multicallAddress) ==
  Join(SelectTruthy(<<Str(<<"balanceOf">>), tokenAddress, networkId,
                      accountAddress, multicallAddress>>), <<"-">>)

\* ------------------------------------------------------------ characters
Digits == {"0", "1", "2", "3", "4", "5", "6", "7", "8", "9"}
HexDigits == Digits \cup {"a", "b", "c", "d", "e", "f", "A", "B", "C", "D", "E", "F"}

DigitVal(c) ==
  CASE c = "0" -> 0 [] c = "1" -> 1 [] c = "2" -> 2 [] c = "3" -> 3 [] c = "4" -> 4
    [] c = "5" -> 5 [] c = "6" -> 6 [] c = "7" -> 7 [] c = "8" -> 8 [] c = "9" -> 9

Lower(c) ==
  CASE c = "A" -> "a" [] c = "B" -> "b" [] c = "C" -> "c" [] c = "D" -> "d"
    [] c = "E" -> "e" [] c = "F" -> "f" [] c = "X" -> "x" [] OTHER -> c

\* --------------------------------------------------------- error payload
\* errorCode?: string | number (null and undefined also reach the classifier)
NumCode(n) == [t |-> "number", n |-> n, s |-> <<>>]
StrCode(chars) == [t |-> "string", n |-> 0, s |-> chars]
NullCode == [t |-> "null", n |-> 0, s |-> <<>>]
UndefCode == [t |-> "undefined", n |-> 0, s |-> <<>>]
UNINITIALIZED_CONTRACT == StrCode(<<"StarknetErrorCode.UNINITIALIZED_CONTRACT">>)

\* decimal value of a string of digits
RECURSIVE DecValue(_, _)
DecValue(chars, acc) ==
  IF chars = <<>> THEN acc ELSE DecValue(Tail(chars), 10 * acc + DigitVal(Head(chars)))

\* shared/utils/number isNumeric: a number, or a string that reads as one
isNumeric(errorCode) ==
  \/ errorCode.t = "number"
  \/ /\ errorCode.t = "string"
     /\ errorCode.s # <<>>
     /\ \A i \in 1..Len(errorCode.s) : errorCode.s[i] \in Digits

\* Number(errorCode), used only where isNumeric(errorCode) holds
Number(errorCode) ==
  IF errorCode.t = "number" THEN errorCode.n ELSE DecValue(errorCode.s, 0)

\* value of the leading digits of a string, as parseInt reads them
RECURSIVE LeadingDigits(_)
LeadingDigits(chars) ==
  IF chars = <<>> \/ Head(chars) \notin Digits THEN <<>>
  ELSE <<Head(chars)>> \o LeadingDigits(Tail(chars))

\* a network-error test that reads the code with parseInt and no isNumeric check
isNetworkErrorParseInt(errorCode) ==
  \/ errorCode.t = "number" /\ errorCode.n \in {429, 502}
  \/ /\ errorCode.t = "string"
     /\ LeadingDigits(errorCode.s) # <<>>
     /\ DecValue(LeadingDigits(errorCode.s), 0) \in {429, 502}

isNetworkError(errorCode) ==
  IF ~isNumeric(errorCode) THEN FALSE
  ELSE Number(errorCode) \in {429, 502}

\* ------------------------------------------------------------- addresses
\* services/addresses isEqualAddress: equality up to case and zero padding
RECURSIVE StripZeros(_)
StripZeros(chars) ==
  IF chars # <<>> /\ Head(chars) = "0" THEN StripZeros(Tail(chars)) ELSE chars

NormalizeAddress(chars) ==
  LET low == [i \in 1..Len(chars) |-> Lower(chars[i])]
      body == IF Len(low) >= 2 /\ low[1] = "0" /\ low[2] = "x"
              THEN SubSeq(low, 3, Len(low)) ELSE low
  IN StripZeros(body)

isEqualAddress(a, b) == NormalizeAddress(a) = NormalizeAddress(b)

\* message.match(/(0x[0-9a-f]+)/gi)?.[0]: the leftmost match, taken greedily
MatchesAt(chars, i) ==
  /\ i + 2 <= Len(chars)
  /\ chars[i] = "0"
  /\ Lower(chars[i + 1]) = "x"
  /\ chars[i + 2] \in HexDigits

RECURSIVE HexRunEnd(_, _)
HexRunEnd(chars, j) ==
  IF j + 1 <= Len(chars) /\ chars[j + 1] \in HexDigits THEN HexRunEnd(chars, j + 1) ELSE j

FirstHexAddress(chars) ==
  LET starts == {i \in 1..Len(chars) : MatchesAt(chars, i)}
  IN IF starts = {} THEN Undefined
     ELSE LET i == CHOOSE m \in starts : \A n \in starts : m <= n
          IN Str(SubSeq(chars, i, HexRunEnd(chars, i + 2)))

\* ------------------------------------------------------------ classifier
\* what a call of errorToMessage does: return a TokenBalanceErrorMessage or throw
Returned(message, description) ==
  [tag |-> "return", message |-> message, description |-> description]
Thrown(what) == [tag |-> "throw", message |-> what, description |-> Undefined]
NotCalled == [tag |-> "none", message |-> "", description |-> Undefined]

\* the last match of /(0x[0-9a-f]+)/gi from position i on, last if there is none
RECURSIVE LastHexAddressFrom(_, _, _)
LastHexAddressFrom(chars, i, last) ==
  IF i > Len(chars) THEN last
  ELSE IF MatchesAt(chars, i)
  THEN LET e == HexRunEnd(chars, i + 2)
       IN LastHexAddressFrom(chars, e + 1, Str(SubSeq(chars, i, e)))
  ELSE LastHexAddressFrom(chars, i + 1, last)

\* a classifier that takes the last address of the message
errorToMessageLastAddress(error, tokenAddress, multicallAddress) ==
  LET errorCode == error.errorCode
      message == error.message
  IN IF errorCode = UNINITIALIZED_CONTRACT
     THEN IF ~message.def THEN Thrown("TypeError")
          ELSE LET contractAddress == LastHexAddressFrom(message.s, 1, Undefined)
               IN IF Truthy(contractAddress)
                  THEN IF isEqualAddress(contractAddress.s, tokenAddress)
                       THEN Returned("Token not found",
                              Str(<<"Token with address ">> \o tokenAddress
                                  \o <<" not deployed on this network">>))
                       ELSE IF Truthy(multicallAddress)
                               /\ isEqualAddress(contractAddress.s, multicallAddress.s)
                       THEN Returned("No Multicall",
                              Str(<<"Multicall contract with address ">> \o multicallAddress.s
                                  \o <<" not deployed on this network">>))
                       ELSE Returned("Missing contract",
                              Str(<<"Contract with address ">> \o contractAddress.s
                                  \o <<" not deployed on this network">>))
                  ELSE Returned("Missing contract", message)
     ELSE IF isNetworkError(errorCode) THEN Returned("Network error", message)
     ELSE Returned("Error", message)

\* the classifier with the multicall comparison ahead of the token comparison
errorToMessageMulticallFirst(error, tokenAddress, multicallAddress) ==
  LET errorCode == error.errorCode
      message == error.message
  IN IF errorCode = UNINITIALIZED_CONTRACT
     THEN IF ~message.def THEN Thrown("TypeError")
          ELSE LET contractAddress == FirstHexAddress(message.s)
               IN IF Truthy(contractAddress)
                  THEN IF Truthy(multicallAddress)
                          /\ isEqualAddress(contractAddress.s, multicallAddress.s)
                       THEN Returned("No Multicall",
                              Str(<<"Multicall contract with address ">> \o multicallAddress.s
                                  \o <<" not deployed on this network">>))
                       ELSE IF isEqualAddress(contractAddress.s, tokenAddress)
                       THEN Returned("Token not found",
                              Str(<<"Token with address ">> \o tokenAddress
                                  \o <<" not deployed on this network">>))
                       ELSE Returned("Missing contract",
                              Str(<<"Contract with address ">> \o contractAddress.s
                                  \o <<" not deployed on this network">>))
                  ELSE Returned("Missing contract", message)
     ELSE IF isNetworkError(errorCode) THEN Returned("Network error", message)
     ELSE Returned("Error", message)

\* error = [errorCode, message]: get(error, "errorCode"), get(error, "message")
errorToMessage(error, tokenAddress, multicallAddress) ==
  LET errorCode == error.errorCode
      message == error.message
  IN IF errorCode = UNINITIALIZED_CONTRACT
     THEN \* message.match on an undefined message is a TypeError
          IF ~message.def THEN Thrown("TypeError")
          ELSE LET contractAddress == FirstHexAddress(message.s)
               IN IF Truthy(contractAddress)
                  THEN IF isEqualAddress(contractAddress.s, tokenAddress)
                       THEN Returned("Token not found",
                              Str(<<"Token with address ">> \o tokenAddress
                                  \o <<" not deployed on this network">>))
                       ELSE IF Truthy(multicallAddress)
                               /\ isEqualAddress(contractAddress.s, multicallAddress.s)
                       THEN Returned("No Multicall",
                              Str(<<"Multicall contract with address ">> \o multicallAddress.s
                                  \o <<" not deployed on this network">>))
                       ELSE Returned("Missing contract",
                              Str(<<"Contract with address ">> \o contractAddress.s
                                  \o <<" not deployed on this network">>))
                  ELSE Returned("Missing contract", message)
     ELSE IF isNetworkError(errorCode) THEN Returned("Network error", message)
     ELSE Returned("Error", message)

\* ---------------------------------------------------------------- fetcher
\* what getTokenBalanceForWalletAccount did: a balance, or a failure payload
Succeeded(balance) ==
  [ok |-> TRUE, balance |-> balance, error |-> [errorCode |-> UndefCode, message |-> Undefined]]
Failed(error) == [ok |-> FALSE, balance |-> "", error |-> error]

\* the TypeError of message.match on an undefined message: no errorCode
TypeErrorValue ==
  [errorCode |-> UndefCode,
   message |-> Str(<<"Cannot read properties of undefined (reading 'match')">>)]

\* how the promise of the SWR fetcher settles
Resolved(kind, balance, classified) ==
  [settled |-> "resolve", kind |-> kind, balance |-> balance, classified |-> classified,
   error |-> [errorCode |-> UndefCode, message |-> Undefined]]
Rejected(kind, error) ==
  [settled |-> "reject", kind |-> kind, balance |-> "", classified |-> NotCalled,
   error |-> error]

\* a fetcher that classifies every failure, whatever shouldReturnError says
fetcherAlwaysClassify(outcome, shouldReturnError, tokenAddress, multicallAddress) ==
  IF outcome.ok THEN Resolved("balance", outcome.balance, NotCalled)
  ELSE LET m == errorToMessage(outcome.error, tokenAddress, multicallAddress)
       IN IF m.tag = "throw" THEN Rejected("TypeError", TypeErrorValue)
          ELSE Resolved("classified", "", m)

\* the async function given to useSWR
fetcher(outcome, shouldReturnError, tokenAddress, multicallAddress) ==
  IF outcome.ok THEN Resolved("balance", outcome.balance, NotCalled)
  ELSE IF shouldReturnError
       THEN LET m == errorToMessage(outcome.error, tokenAddress, multicallAddress)
            IN IF m.tag = "throw"
               THEN \* the TypeError leaves the catch block: the promise rejects with it
                    Rejected("TypeError", TypeErrorValue)
               ELSE Resolved("classified", "", m)
       ELSE Rejected("original", outcome.error)

\* ------------------------------------------------- tokens and accounts
Tokens == { [address |-> <<"0", "x", "a">>, networkId |-> <<"n">>] }
Accounts ==
  { [address |-> <<"0", "x", "1">>,
     network |-> [multicallAddress |-> Str(<<"0", "x", "c">>)]],
    [address |-> <<"0", "x", "2">>,
     network |-> [multicallAddress |-> Undefined]] }
\* a second token, for hook instances on different tokens of one account
AllTokens == Tokens \cup { [address |-> <<"0", "x", "b">>, networkId |-> <<"n">>] }
Subs == {1, 2}      \* hook instances

keyOf(token, account) ==
  key(Str(token.address), Str(token.networkId), Str(account.address),
      account.network.multicallAddress)
Keys == {keyOf(t, a) : t \in AllTokens, a \in Accounts}

\* what the balance query can answer in the hook's state machine
Errors ==
  { [errorCode |-> NumCode(429), message |-> Str(<<"busy">>)],
    [errorCode |-> UNINITIALIZED_CONTRACT, message |-> Undefined] }
Outcomes == {Succeeded("1")} \cup {Failed(e) : e \in Errors}

VARIABLES
  pending,    \* per account: pendingTransactions.length of useAccountTransactions
  subs,       \* per hook instance: its props, pendingTransactionsLengthRef, effect deps
  cache,      \* the SWR cache: entries, requests in flight, and their history
  obs,        \* per hook instance: the count of its preceding observation, -1 if none
  lastEvent,  \* what the last step did
  kA, kB, kKeys,        \* key builder: two component tuples and their keys
  cIn, cOut, fOut       \* classifier: the inputs, errorToMessage's and the fetcher's result

vars == <<pending, subs, cache, obs, lastEvent, kA, kB, kKeys, cIn, cOut, fOut>>
hookVars == <<pending, subs, cache, obs, lastEvent>>
keyVars == <<kA, kB, kKeys>>
classVars == <<cIn, cOut, fOut>>

\* ------------------------------------------------------ SWR cache state
NoData == [kind |-> "none", balance |-> "", classified |-> NotCalled]
NoError == [kind |-> "none", error |-> [errorCode |-> UndefCode, message |-> Undefined]]
IdleEntry == [status |-> "idle", data |-> NoData, error |-> NoError]

EmptyCache ==
  [entry |-> [k \in Keys |-> IdleEntry],
   reqs |-> {},                      \* balance queries started and not completed
   nextId |-> 1,
   calls |-> [k \in Keys |-> 0],     \* getBalance calls issued for the key
   lastInv |-> [k \in Keys |-> 0],   \* the query started by the latest mutate()
   writer |-> [k \in Keys |-> 0]]    \* the query whose result the entry holds

Unmounted ==
  [mounted |-> FALSE,
   token |-> CHOOSE t \in Tokens : TRUE,
   account |-> CHOOSE a \in Accounts : TRUE,
   shouldReturnError |-> FALSE,
   ref |-> 0, dep |-> 0]

NoEvent ==
  [type |-> "none", prev |-> -1, count |-> 0, mutates |-> 0,
   id |-> 0, key |-> <<>>, live |-> FALSE,
   closure |-> [shouldReturnError |-> FALSE, tokenAddress |-> <<>>,
                multicallAddress |-> Undefined],
   outcome |-> Succeeded("")]

HookInit ==
  /\ pending = [a \in Accounts |-> 0]
  /\ subs = [s \in Subs |-> Unmounted]
  /\ cache = EmptyCache
  /\ obs = [s \in Subs |-> -1]
  /\ lastEvent = NoEvent

\* ------------------------------------------------ SWR cache operations
\* what the fetcher of a hook instance closes over
Closure(sub) ==
  [shouldReturnError |-> sub.shouldReturnError,
   tokenAddress |-> sub.token.address,
   multicallAddress |-> sub.account.network.multicallAddress]

\* call the fetcher: one getBalance call, now the key's current request
startFetch(c, k, closure) ==
  [c EXCEPT !.reqs = @ \cup {[id |-> c.nextId, key |-> k, live |-> TRUE,
                              closure |-> closure]},
            !.nextId = @ + 1,
            !.calls[k] = @ + 1,
            !.entry[k].status = "loading"]

\* a subscribe that starts a request of its own whatever the entry's state
subscribeNoDedupe(c, k, closure) == startFetch(c, k, closure)

\* useSWR(key, fetcher): fetch on a miss, join the request in flight otherwise
subscribe(c, k, closure) ==
  IF c.entry[k].status = "idle" THEN startFetch(c, k, closure) ELSE c

\* a revalidation that leaves the request in flight current
invalidateNoSupersede(c, k, closure) ==
  [startFetch(c, k, closure) EXCEPT !.lastInv[k] = c.nextId]

\* mutate(): the requests in flight for the key are superseded, a new one starts
invalidate(c, k, closure) ==
  LET superseded ==
        [c EXCEPT !.reqs = {[r EXCEPT !.live = (r.live /\ r.key # k)] : r \in c.reqs}]
  IN [startFetch(superseded, k, closure) EXCEPT !.lastInv[k] = c.nextId]

\* a completion that writes the result of a superseded request too
completeNoDiscard(c, r, outcome) ==
  LET settle == fetcher(outcome, r.closure.shouldReturnError, r.closure.tokenAddress,
                        r.closure.multicallAddress)
      done == [c EXCEPT !.reqs = @ \ {r}]
  IN IF settle.settled = "resolve"
     THEN [done EXCEPT
             !.entry[r.key] =
                [status |-> IF outcome.ok THEN "success" ELSE "error",
                 data |-> [kind |-> settle.kind, balance |-> settle.balance,
                           classified |-> settle.classified],
                 error |-> NoError],
             !.writer[r.key] = r.id]
     ELSE [done EXCEPT
             !.entry[r.key].status = "error",
             !.entry[r.key].error = [kind |-> settle.kind, error |-> settle.error],
             !.writer[r.key] = r.id]

\* the balance query of request r ends with outcome: the fetcher settles, and the
\* entry takes the result unless the request was superseded
complete(c, r, outcome) ==
  LET settle == fetcher(outcome, r.closure.shouldReturnError, r.closure.tokenAddress,
                        r.closure.multicallAddress)
      done == [c EXCEPT !.reqs = @ \ {r}]
  IN IF ~r.live THEN done
     ELSE IF settle.settled = "resolve"
     THEN [done EXCEPT
             !.entry[r.key] =
                [status |-> IF outcome.ok THEN "success" ELSE "error",
                 data |-> [kind |-> settle.kind, balance |-> settle.balance,
                           classified |-> settle.classified],
                 error |-> NoError],
             !.writer[r.key] = r.id]
     ELSE [done EXCEPT
             !.entry[r.key].status = "error",
             !.entry[r.key].error = [kind |-> settle.kind, error |-> settle.error],
             !.writer[r.key] = r.id]

\* ------------------------------------------------------------ the hook
\* an effect condition that also fires when the count is unchanged
effectMutatesOnEqual(ref, length) == ref >= length

\* an effect condition that fires on an increase instead of a decrease
effectMutatesOnIncrease(ref, length) == ref < length

\* pendingTransactionsLengthRef.current > pendingTransactions.length
effectMutates(ref, length) == ref > length

\* an effect that remembers the count only when it does not call mutate()
effectForgetsOnMutate(sub, length, c) ==
  LET fire == effectMutates(sub.ref, length)
  IN [sub |-> IF fire THEN [sub EXCEPT !.dep = length]
              ELSE [sub EXCEPT !.ref = length, !.dep = length],
      cache |-> IF fire
                THEN invalidate(c, keyOf(sub.token, sub.account), Closure(sub))
                ELSE c,
      mutates |-> IF fire THEN 1 ELSE 0]

\* the useEffect body: mutate() on a decrease, then remember the count
effect(sub, length, c) ==
  LET fire == effectMutates(sub.ref, length)
  IN [sub |-> [sub EXCEPT !.ref = length, !.dep = length],
      cache |-> IF fire
                THEN invalidate(c, keyOf(sub.token, sub.account), Closure(sub))
                ELSE c,
      mutates |-> IF fire THEN 1 ELSE 0]

Observed(type, k, prev, count, mutates) ==
  [NoEvent EXCEPT !.type = type, !.key = k, !.prev = prev, !.count = count,
                  !.mutates = mutates]

\* first render of a hook instance: useRef(length), useSWR(key, fetcher), the effect
Mount(s, t, a, sre) ==
  /\ ~subs[s].mounted
  /\ LET length == pending[a]
         sub == [mounted |-> TRUE, token |-> t, account |-> a,
                 shouldReturnError |-> sre, ref |-> length, dep |-> length]
         r == effect(sub, length, subscribe(cache, keyOf(t, a), Closure(sub)))
     IN /\ r.cache.nextId <= MaxFetches + 1
        /\ subs' = [subs EXCEPT ![s] = r.sub]
        /\ cache' = r.cache
        /\ obs' = [obs EXCEPT ![s] = length]
        /\ lastEvent' = Observed("mount", keyOf(t, a), -1, length, r.mutates)
  /\ UNCHANGED <<pending, keyVars, classVars>>

\* a render whose effect writes the count into the ref of every hook instance
RenderSharedRef(s) ==
  /\ subs[s].mounted
  /\ LET length == pending[subs[s].account]
         r == IF length # subs[s].dep THEN effect(subs[s], length, cache)
              ELSE [sub |-> subs[s], cache |-> cache, mutates |-> 0]
     IN /\ r.cache.nextId <= MaxFetches + 1
        /\ subs' = [o \in Subs |->
                      IF o = s THEN r.sub
                      ELSE IF subs[o].mounted /\ subs[o].account = subs[s].account
                      THEN [subs[o] EXCEPT !.ref = length, !.dep = length]
                      ELSE subs[o]]
        /\ cache' = r.cache
        /\ obs' = [obs EXCEPT ![s] = length]
        /\ lastEvent' = Observed("render", keyOf(subs[s].token, subs[s].account), obs[s], length,
                                 r.mutates)
  /\ UNCHANGED <<pending, keyVars, classVars>>

\* a later render with the same props: the effect runs when the length changed
Render(s) ==
  /\ subs[s].mounted
  /\ LET length == pending[subs[s].account]
         r == IF length # subs[s].dep THEN effect(subs[s], length, cache)
              ELSE [sub |-> subs[s], cache |-> cache, mutates |-> 0]
     IN /\ r.cache.nextId <= MaxFetches + 1
        /\ subs' = [subs EXCEPT ![s] = r.sub]
        /\ cache' = r.cache
        /\ obs' = [obs EXCEPT ![s] = length]
        /\ lastEvent' = Observed("render", keyOf(subs[s].token, subs[s].account), obs[s], length,
                                 r.mutates)
  /\ UNCHANGED <<pending, keyVars, classVars>>

\* a render with another account prop: the ref stays, the key changes
Repoint(s, a) ==
  /\ subs[s].mounted
  /\ a # subs[s].account
  /\ LET length == pending[a]
         sub == [subs[s] EXCEPT !.account = a]
         c == subscribe(cache, keyOf(sub.token, a), Closure(sub))
         r == IF length # sub.dep THEN effect(sub, length, c)
              ELSE [sub |-> sub, cache |-> c, mutates |-> 0]
     IN /\ r.cache.nextId <= MaxFetches + 1
        /\ subs' = [subs EXCEPT ![s] = r.sub]
        /\ cache' = r.cache
        /\ obs' = [obs EXCEPT ![s] = length]
        /\ lastEvent' = Observed("repoint", keyOf(sub.token, a), -1, length, r.mutates)
  /\ UNCHANGED <<pending, keyVars, classVars>>

Unmount(s) ==
  /\ subs[s].mounted
  /\ subs' = [subs EXCEPT ![s] = Unmounted]
  /\ obs' = [obs EXCEPT ![s] = -1]
  /\ lastEvent' = NoEvent
  /\ UNCHANGED <<pending, cache, keyVars, classVars>>

\* the account's list of pending transactions changes
SetPending(a, n) ==
  /\ n # pending[a]
  /\ pending' = [pending EXCEPT ![a] = n]
  /\ lastEvent' = NoEvent
  /\ UNCHANGED <<subs, cache, obs, keyVars, classVars>>

\* a balance query in flight ends
Complete(r, outcome) ==
  /\ r \in cache.reqs
  /\ cache' = complete(cache, r, outcome)
  /\ lastEvent' = [NoEvent EXCEPT
        !.type = "complete", !.id = r.id, !.key = r.key, !.live = r.live,
        !.closure = r.closure, !.outcome = outcome]
  /\ UNCHANGED <<pending, subs, obs, keyVars, classVars>>

\* ------------------------------------------------- key builder on bounded inputs
\* addresses hold no separator; a network id may ("goerli-alpha")
AddressAlphabet == {"a", "b"}
NetworkAlphabet == {"a", "-"}
StringsUpTo(alphabet, n) == UNION {[1..m -> alphabet] : m \in 1..n}
KeyFields == {"tokenAddress", "networkId", "accountAddress", "multicallAddress"}
\* token.address, token.networkId and account.address are non-empty strings;
\* account.network.multicallAddress is an address or undefined
FieldValues(f) ==
  IF f = "multicallAddress"
  THEN {Undefined} \cup {Str(c) : c \in StringsUpTo(AddressAlphabet, MaxAddrLen)}
  ELSE IF f = "networkId" THEN {Str(c) : c \in StringsUpTo(NetworkAlphabet, MaxCompLen)}
  ELSE {Str(c) : c \in StringsUpTo(AddressAlphabet, MaxAddrLen)}
KeyTuples ==
  [tokenAddress : FieldValues("tokenAddress"), networkId : FieldValues("networkId"),
   accountAddress : FieldValues("accountAddress"),
   multicallAddress : FieldValues("multicallAddress")]
Differing(a, b) == {f \in KeyFields : a[f] # b[f]}
keyOfTuple(t) == key(t.tokenAddress, t.networkId, t.accountAddress, t.multicallAddress)

KeyInit ==
  /\ kA \in KeyTuples
  /\ kB = kA
  /\ kKeys = <<>>

\* choose a second tuple that differs from the first in one component
VaryOne(f, v) ==
  /\ kKeys = <<>>
  /\ kB = kA
  /\ v # kB[f]
  /\ kB' = [kB EXCEPT ![f] = v]
  /\ UNCHANGED <<kA, kKeys, hookVars, classVars>>

\* change a component of the second tuple
Vary(f, v) ==
  /\ kKeys = <<>>
  /\ v # kB[f]
  /\ kB' = [kB EXCEPT ![f] = v]
  /\ UNCHANGED <<kA, kKeys, hookVars, classVars>>

BuildKeys ==
  /\ kKeys = <<>>
  /\ kKeys' = <<keyOfTuple(kA), keyOfTuple(kB)>>
  /\ UNCHANGED <<kA, kB, hookVars, classVars>>

\* ------------------------------------------------- classifier on bounded inputs
Words ==
  { <<"0", "x", "A">>, <<"0", "X", "0", "b">>, <<"0", "x", "c">>, <<"g", " ">>, <<"0", "x">> }
RECURSIVE Sentences(_)
Sentences(n) ==
  IF n = 0 THEN {<<>>}
  ELSE Sentences(n - 1) \cup {m \o w : m \in Sentences(n - 1), w \in Words}
Messages == {Undefined} \cup {Str(m) : m \in Sentences(MaxWords)}
ErrorCodes ==
  { NumCode(429), NumCode(502), NumCode(500),
    StrCode(<<"4", "2", "9">>), StrCode(<<"5", "0", "2">>), StrCode(<<"4", "2", "9", "x">>),
    StrCode(<<>>), UNINITIALIZED_CONTRACT, NullCode, UndefCode }
TokenAddresses == { <<"0", "x", "a">>, <<"0", "x", "c">> }
MulticallAddresses ==
  { Undefined, Str(<<>>), Str(<<"0", "x", "b">>), Str(<<"0", "x", "a">>) }
NotSettled == Rejected("none", NoError.error)

ClassInit ==
  /\ cIn \in [error : [errorCode : ErrorCodes, message : Messages],
              tokenAddress : TokenAddresses,
              multicallAddress : MulticallAddresses,
              shouldReturnError : BOOLEAN]
  /\ cOut = NotCalled
  /\ fOut = NotSettled

\* call errorToMessage on the inputs
Classify ==
  /\ cOut = NotCalled
  /\ cOut' = errorToMessage(cIn.error, cIn.tokenAddress, cIn.multicallAddress)
  /\ UNCHANGED <<cIn, fOut, hookVars, keyVars>>

\* run the fetcher on a balance query that fails with the error
RunFetcher ==
  /\ fOut = NotSettled
  /\ fOut' = fetcher(Failed(cIn.error), cIn.shouldReturnError, cIn.tokenAddress,
                     cIn.multicallAddress)
  /\ UNCHANGED <<cIn, cOut, hookVars, keyVars>>

KeyIdle ==
  /\ kA = [f \in KeyFields |-> Str(<<"a">>)]
  /\ kB = kA
  /\ kKeys = <<>>
ClassIdle ==
  /\ cIn = [error |-> [errorCode |-> UndefCode, message |-> Undefined],
            tokenAddress |-> <<"0", "x", "a">>,
            multicallAddress |-> Undefined,
            shouldReturnError |-> FALSE]
  /\ cOut = NotCalled
  /\ fOut = NotSettled

\* the account the hook instances of Spec are given
MainAccounts == {a \in Accounts : a.network.multicallAddress.def}

\* the keys of the hook instances of Spec
MainKeys == {keyOf(t, a) : t \in Tokens, a \in MainAccounts}

Init == HookInit /\ KeyIdle /\ ClassIdle
Next ==
  \/ \E s \in Subs, t \in Tokens, a \in MainAccounts, sre \in BOOLEAN : Mount(s, t, a, sre)
  \/ \E s \in Subs : Render(s)
  \/ \E a \in MainAccounts, n \in 0..MaxPending : SetPending(a, n)
  \/ \E r \in cache.reqs, o \in Outcomes : Complete(r, o)
\* hook instances on one account, the cache and the balance queries
Spec == Init /\ [][Next]_vars

CompleteSome == \E r \in cache.reqs, o \in Outcomes : Complete(r, o)
\* Spec with every balance query in flight ending eventually
SpecFair == Init /\ [][Next]_vars /\ WF_vars(CompleteSome)

\* the first hook instance
OneSub == {s \in Subs : \A o \in Subs : s <= o}
NextOne ==
  \/ \E s \in OneSub, t \in Tokens, a \in MainAccounts, sre \in BOOLEAN : Mount(s, t, a, sre)
  \/ \E s \in OneSub : Render(s)
  \/ \E a \in MainAccounts, n \in 0..MaxPending : SetPending(a, n)
  \/ CompleteSome
\* one hook instance, with every balance query in flight ending eventually
SpecFairOne == Init /\ [][NextOne]_vars /\ WF_vars(CompleteSome)

NextLifecycle == Next \/ \E s \in Subs : Unmount(s)
\* the same with hook instances that unmount and mount again
SpecLifecycle == Init /\ [][NextLifecycle]_vars

NextRepoint ==
  \/ \E s \in OneSub, t \in Tokens, a \in Accounts, sre \in BOOLEAN : Mount(s, t, a, sre)
  \/ \E s \in OneSub : Render(s)
  \/ \E s \in OneSub, a \in Accounts : Repoint(s, a)
  \/ \E a \in Accounts, n \in 0..MaxPending : SetPending(a, n)
  \/ \E r \in cache.reqs, o \in Outcomes : Complete(r, o)
\* one hook instance whose account prop changes between the accounts
SpecRepoint == Init /\ [][NextRepoint]_vars

NextTokens ==
  \/ \E s \in OneSub, t \in Tokens, a \in MainAccounts, sre \in BOOLEAN :
        Mount(s, t, a, sre)
  \/ \E s \in Subs \ OneSub, t \in AllTokens \ Tokens, a \in MainAccounts, sre \in BOOLEAN :
        Mount(s, t, a, sre)
  \/ \E s \in Subs : Render(s)
  \/ \E s \in Subs \ OneSub : Unmount(s)
  \/ \E a \in MainAccounts, n \in 0..MaxPending : SetPending(a, n)
  \/ \E r \in cache.reqs, o \in Outcomes : Complete(r, o)
\* a hook instance per token of one account, the second unmounting and mounting again
SpecTokens == Init /\ [][NextTokens]_vars

InitKey == HookInit /\ ClassIdle /\ KeyInit
InitClassify == HookInit /\ KeyIdle /\ ClassInit
NextKeyOne == (\E f \in KeyFields : \E v \in FieldValues(f) : VaryOne(f, v)) \/ BuildKeys
NextKey == (\E f \in KeyFields : \E v \in FieldValues(f) : Vary(f, v)) \/ BuildKeys
NextClassify == Classify \/ RunFetcher

\* the key builder on two tuples that differ in at most one component
SpecKeyOne == InitKey /\ [][NextKeyOne]_vars
\* the key builder on any two tuples
SpecKey == InitKey /\ [][NextKey]_vars
\* the classifier and the fetcher on every error payload
SpecClassify == InitClassify /\ [][NextClassify]_vars

\* ======================================================= hook and cache
\* what a hook instance returns as { data, error }: the entry of its key
View(s) == cache.entry[keyOf(subs[s].token, subs[s].account)]
InFlight(k) == {r \in cache.reqs : r.key = k}
Settlement(e) ==
  fetcher(e.outcome, e.closure.shouldReturnError, e.closure.tokenAddress,
          e.closure.multicallAddress)

\* C1: a hook instance observing one account calls mutate() at an observation exactly
\* when that count is strictly below the count of its preceding observation, and once;
\* never at its first observation, nor on an equal or greater count.
C1_MutateExactlyOnDecrease ==
  lastEvent.type \in {"mount", "render"} =>
    lastEvent.mutates =
      IF lastEvent.prev >= 0 /\ lastEvent.count < lastEvent.prev THEN 1 ELSE 0

\* a render observed a count below the preceding one and called mutate() once
C1_Witness ==
  /\ lastEvent.type = "render"
  /\ lastEvent.prev > lastEvent.count
  /\ lastEvent.mutates = 1
  /\ cache.lastInv[lastEvent.key] = cache.nextId - 1

\* C2: with no mutate() for a key, subscribers that join while its first request is in
\* flight cause no further getBalance call, and when that request completes every
\* subscriber of the key sees its settled value.
C2_Coalescing ==
  \A k \in Keys :
    cache.lastInv[k] = 0 =>
      /\ (InFlight(k) # {} => cache.calls[k] = 1)
      /\ (lastEvent.type = "complete" /\ lastEvent.key = k) =>
            /\ cache.calls[k] = 1
            /\ \A s \in Subs :
                 (subs[s].mounted /\ keyOf(subs[s].token, subs[s].account) = k) =>
                    LET settle == Settlement(lastEvent)
                    IN IF settle.settled = "resolve"
                       THEN /\ View(s).data.kind = settle.kind
                            /\ View(s).data.balance = settle.balance
                            /\ View(s).data.classified = settle.classified
                            /\ View(s).error = NoError
                       ELSE View(s).error = [kind |-> settle.kind, error |-> settle.error]

\* the second subscriber has just mounted while the first request of the key is in
\* flight, and there is still one getBalance call
C2_Witness ==
  /\ lastEvent.type = "mount"
  /\ \A s \in Subs : subs[s].mounted
  /\ \A s \in Subs : keyOf(subs[s].token, subs[s].account) = keyOf(subs[1].token, subs[1].account)
  /\ LET k == keyOf(subs[1].token, subs[1].account)
     IN /\ cache.lastInv[k] = 0
        /\ Cardinality(InFlight(k)) = 1
        /\ cache.calls[k] = 1

\* C3: a request superseded by mutate() never writes the entry when it completes, and
\* once the request started by the latest mutate() has completed the entry holds that
\* request's result, whatever older requests complete afterwards.
C3_Supersession ==
  /\ (lastEvent.type = "complete" /\ ~lastEvent.live) =>
        cache.writer[lastEvent.key] # lastEvent.id
  /\ \A k \in Keys :
       (cache.lastInv[k] # 0 /\ \A r \in InFlight(k) : r.id # cache.lastInv[k]) =>
          cache.writer[k] = cache.lastInv[k]

\* a superseded request completed after the request that superseded it, and the
\* entry still holds the later request's result
C3_Witness ==
  /\ lastEvent.type = "complete"
  /\ ~lastEvent.live
  /\ cache.lastInv[lastEvent.key] > lastEvent.id
  /\ cache.writer[lastEvent.key] = cache.lastInv[lastEvent.key]

\* C4 as claimed: at most one balance query per key is started and not completed.
C4_AtMostOneInFlight ==
  \A k \in Keys : Cardinality(InFlight(k)) <= 1

\* C4 as amended: at most one request per key in flight is current; requests that a
\* mutate() superseded may still be in flight beside it.
C4_AtMostOneCurrentInFlight ==
  \A k \in Keys : Cardinality({r \in InFlight(k) : r.live}) <= 1

\* a superseded request and the current one are in flight for the same key
C4_Witness ==
  \E k \in Keys :
    /\ Cardinality(InFlight(k)) = 2
    /\ Cardinality({r \in InFlight(k) : r.live}) = 1

\* C5 as claimed: when the balance query of the current request fails, without
\* shouldReturnError the entry's error is the original failure, and with it the entry's
\* data is errorToMessage's ClassifiedError and no error is set (the TypeError of the
\* classifier breaks the second half).
C5_FailureByFlag ==
  (lastEvent.type = "complete" /\ lastEvent.live /\ ~lastEvent.outcome.ok) =>
     LET e == cache.entry[lastEvent.key]
         m == errorToMessage(lastEvent.outcome.error, lastEvent.closure.tokenAddress,
                             lastEvent.closure.multicallAddress)
     IN IF lastEvent.closure.shouldReturnError
        THEN /\ e.data.kind = "classified"
             /\ e.data.classified = m
             /\ m.tag = "return"
             /\ e.error = NoError
        ELSE e.error = [kind |-> "original", error |-> lastEvent.outcome.error]

\* C11 as claimed: when the entry of a key holds a balance string and the current
\* request of the key ends in a failure, the entry's data is that balance string
\* afterwards, with and without shouldReturnError.
C11_FailureKeepsBalance ==
  [][\A k \in Keys :
       (/\ cache.entry[k].data.kind = "balance"
        /\ lastEvent'.type = "complete"
        /\ lastEvent'.key = k
        /\ lastEvent'.live
        /\ ~lastEvent'.outcome.ok)
       => cache'.entry[k].data = cache.entry[k].data]_vars

\* C12 as claimed: the first observation a hook instance makes of an account's count
\* calls no mutate(), at its mount and when its account prop changes to another account
\* (whatever the count it last observed for the account it had before).
C12_FirstObservationNeverMutates ==
  lastEvent.type \in {"mount", "repoint"} => lastEvent.mutates = 0

\* the keys of an account's balances, and the hook instances mounted on a key
KeysOfAccount(a) == {keyOf(t, a) : t \in AllTokens}
Subscribers(k) == {s \in Subs : subs[s].mounted /\ keyOf(subs[s].token, subs[s].account) = k}

\* C13 as claimed: when a hook instance observes a decrease of its account's count,
\* every key of that account that has an entry is invalidated: a key without a mounted
\* hook instance (whose own effect would call mutate() for it) is the key the
\* observing instance calls mutate() for.
C13_DecreaseInvalidatesEveryKey ==
  (lastEvent.type = "render" /\ lastEvent.mutates = 1) =>
     \A a \in Accounts :
       lastEvent.key \in KeysOfAccount(a) =>
         \A k \in KeysOfAccount(a) :
           (cache.entry[k].status # "idle" /\ Subscribers(k) = {}) => k = lastEvent.key

\* C14: when every balance query in flight ends eventually, after a hook instance
\* has observed a decrease of its account's count the entry of its key eventually
\* holds the result of a balance query started at or after that observation (n is the
\* id of the first query started at or after it).
C14_DecreaseLeadsToFreshResult ==
  \A k \in MainKeys, n \in 1..(MaxFetches + 1) :
    (/\ lastEvent.type = "render"
     /\ lastEvent.prev > lastEvent.count
     /\ lastEvent.key = k
     /\ cache.nextId - lastEvent.mutates = n)
    ~> (cache.writer[k] >= n)

\* the query started by the mutate() of an observed decrease has just ended and the
\* entry holds its result
C14_Witness ==
  /\ lastEvent.type = "complete"
  /\ lastEvent.live
  /\ cache.lastInv[lastEvent.key] = lastEvent.id
  /\ cache.writer[lastEvent.key] = lastEvent.id

\* C17: after every observation of a hook instance its pendingTransactionsLengthRef
\* holds the count just observed, whether or not the observation called mutate(); and
\* whether a render calls mutate() is decided by the count it observes and the count
\* of the preceding observation alone.
C17_RefIsLastObservedCount ==
  /\ \A s \in Subs : subs[s].mounted => subs[s].ref = obs[s]
  /\ lastEvent.type = "render" =>
        /\ lastEvent.mutates = IF lastEvent.prev > lastEvent.count THEN 1 ELSE 0
        /\ \E s \in Subs : /\ subs[s].mounted
                           /\ keyOf(subs[s].token, subs[s].account) = lastEvent.key
                           /\ subs[s].ref = lastEvent.count

\* a render observed a decrease and called mutate(), and the ref of a hook instance
\* of that key now holds the lower count
C17_Witness ==
  /\ lastEvent.type = "render"
  /\ lastEvent.mutates = 1
  /\ lastEvent.prev > lastEvent.count
  /\ \E s \in Subs : /\ subs[s].mounted
                     /\ keyOf(subs[s].token, subs[s].account) = lastEvent.key
                     /\ obs[s] = lastEvent.count
                     /\ subs[s].ref = lastEvent.count

\* C18: a render of one hook instance leaves the ref (and every other field) of every
\* other hook instance as it was, and it calls mutate() exactly when its own ref is
\* above the count it observes; so each of the hook instances on one account calls
\* mutate() itself when the account's count has decreased.
C18_OwnRecordOwnInvalidate ==
  [][\A s \in Subs :
       Render(s) =>
         LET k == keyOf(subs[s].token, subs[s].account)
             decrease == subs[s].ref > pending[subs[s].account]
         IN /\ \A o \in Subs \ {s} : subs'[o] = subs[o] /\ obs'[o] = obs[o]
            /\ lastEvent'.mutates = IF decrease THEN 1 ELSE 0
            /\ cache'.calls[k] = cache.calls[k] + (IF decrease THEN 1 ELSE 0)
            /\ decrease => cache'.lastInv[k] = cache.nextId]_vars

\* both hook instances are on one key, both have observed the decrease, and the
\* second of them has just called mutate() too: the initial query and two more
C18_Witness ==
  /\ lastEvent.type = "render"
  /\ lastEvent.mutates = 1
  /\ \A s \in Subs : /\ subs[s].mounted
                     /\ keyOf(subs[s].token, subs[s].account) = lastEvent.key
                     /\ subs[s].ref = lastEvent.count
  /\ cache.calls[lastEvent.key] = 1 + Cardinality(Subs)
  /\ cache.lastInv[lastEvent.key] = cache.nextId - 1

\* C19 as claimed: when the current request of a key ends in a failure (one that
\* errorToMessage classifies), every hook instance on the key sees the failure in the
\* form of its own shouldReturnError: the classified message as data and no error with
\* the flag, the original failure as error without it, whichever instance's fetcher ran.
C19_OutcomeByOwnFlag ==
  (/\ lastEvent.type = "complete"
   /\ lastEvent.live
   /\ ~lastEvent.outcome.ok
   /\ errorToMessage(lastEvent.outcome.error, lastEvent.closure.tokenAddress,
                     lastEvent.closure.multicallAddress).tag = "return") =>
     \A s \in Subscribers(lastEvent.key) :
       IF subs[s].shouldReturnError
       THEN /\ View(s).data.kind = "classified"
            /\ View(s).data.classified =
                 errorToMessage(lastEvent.outcome.error, subs[s].token.address,
                                subs[s].account.network.multicallAddress)
            /\ View(s).error = NoError
       ELSE View(s).error = [kind |-> "original", error |-> lastEvent.outcome.error]

\* ======================================================== request key
\* C7: the keys of equal tuples are equal, and the keys of two tuples that differ
\* in exactly one component (a multicall address present in one and absent in the
\* other included) are different.
C7_KeyDistinguishesOneComponent ==
  kKeys # <<>> =>
    /\ (kA = kB => kKeys[1] = kKeys[2])
    /\ (Cardinality(Differing(kA, kB)) = 1 => kKeys[1] # kKeys[2])

\* keys were built for two tuples that differ only in the multicall address being absent
C7_Witness ==
  /\ kKeys # <<>>
  /\ Differing(kA, kB) = {"multicallAddress"}
  /\ kA.multicallAddress = Undefined
  /\ kKeys[1] # kKeys[2]

\* C8: any two tuples that differ, in whatever number of components, have different
\* keys (stated as claimed; a network id holding the separator breaks it).
C8_KeyInjectiveOnTuples ==
  (kKeys # <<>> /\ kA # kB) => kKeys[1] # kKeys[2]

\* ========================================================== classifier
Contains(hay, needle) ==
  \E i \in 1..(Len(hay) - Len(needle) + 1) : SubSeq(hay, i, i + Len(needle) - 1) = needle

CategoryMessages ==
  {"Token not found", "No Multicall", "Missing contract", "Network error", "Error"}

\* C6: with shouldReturnError the fetcher resolves with a classified message of the
\* closed set for every error payload, and errorToMessage never throws (stated as
\* claimed; the uninitialized-contract code with no message breaks it).
C6_FailuresAlwaysClassified ==
  /\ cOut.tag # "throw"
  /\ (cOut.tag = "return" => cOut.message \in CategoryMessages)
  /\ (fOut # NotSettled /\ cIn.shouldReturnError) =>
        /\ fOut.settled = "resolve"
        /\ fOut.kind = "classified"
        /\ fOut.classified.message \in CategoryMessages

\* C9: for the uninitialized-contract code and a message whose first hex address is A:
\* A = tokenAddress gives "Token not found" naming tokenAddress (also when A equals the
\* multicall address); else A = multicallAddress gives "No Multicall" naming it; else
\* "Missing contract" naming A.
C9_UninitializedByFirstAddress ==
  LET message == cIn.error.message
      A == FirstHexAddress(message.s)
  IN (/\ cOut # NotCalled
      /\ cIn.error.errorCode = UNINITIALIZED_CONTRACT
      /\ message.def
      /\ A.def) =>
        /\ cOut.tag = "return"
        /\ cOut.description.def
        /\ IF isEqualAddress(A.s, cIn.tokenAddress)
           THEN /\ cOut.message = "Token not found"
                /\ Contains(cOut.description.s, cIn.tokenAddress)
           ELSE IF cIn.multicallAddress.def /\ cIn.multicallAddress.s # <<>>
                   /\ isEqualAddress(A.s, cIn.multicallAddress.s)
           THEN /\ cOut.message = "No Multicall"
                /\ Contains(cOut.description.s, cIn.multicallAddress.s)
           ELSE /\ cOut.message = "Missing contract"
                /\ Contains(cOut.description.s, A.s)

\* the first address of the message equals the token address and the multicall address,
\* and the classifier answered "Token not found"
C9_Witness ==
  /\ cOut.tag = "return"
  /\ cOut.message = "Token not found"
  /\ cIn.error.errorCode = UNINITIALIZED_CONTRACT
  /\ cIn.multicallAddress.def
  /\ cIn.multicallAddress.s # <<>>
  /\ isEqualAddress(cIn.multicallAddress.s, cIn.tokenAddress)
  /\ Len(cIn.error.message.s) > 3

\* C10: the classifier answers "Network error", with the raw message as description,
\* exactly for the codes 429 and 502 given as a number or as a numeric string; never
\* for "429x", "", null, undefined, 500 or the uninitialized-contract code.
C10_NetworkErrorExactly ==
  cOut # NotCalled =>
    /\ (cOut.tag = "return" /\ cOut.message = "Network error")
         <=> cIn.error.errorCode \in {NumCode(429), NumCode(502),
                                      StrCode(<<"4", "2", "9">>), StrCode(<<"5", "0", "2">>)}
    /\ (cOut.message = "Network error" => cOut.description = cIn.error.message)

\* the classifier answered "Network error" for the string "502"
C10_Witness ==
  /\ cOut.tag = "return"
  /\ cOut.message = "Network error"
  /\ cIn.error.errorCode = StrCode(<<"5", "0", "2">>)
  /\ cIn.error.message.def

\* C15: for the uninitialized-contract code and a message without a hex address the
\* classifier answers "Missing contract" with the raw message as description; for a
\* message with several addresses it answers what it answers for the first address
\* alone, so a first address that is neither the token's nor the multicall's gives
\* "Missing contract" naming it, whatever addresses follow.
C15_NoAddressOrFirstOnly ==
  LET message == cIn.error.message
      A == FirstHexAddress(message.s)
  IN (/\ cOut # NotCalled
      /\ cIn.error.errorCode = UNINITIALIZED_CONTRACT
      /\ message.def) =>
        IF ~A.def
        THEN cOut = Returned("Missing contract", message)
        ELSE /\ cOut = errorToMessage([errorCode |-> UNINITIALIZED_CONTRACT,
                                       message |-> Str(A.s)],
                                      cIn.tokenAddress, cIn.multicallAddress)
             /\ (/\ ~isEqualAddress(A.s, cIn.tokenAddress)
                 /\ ~(Truthy(cIn.multicallAddress)
                      /\ isEqualAddress(A.s, cIn.multicallAddress.s)))
                => /\ cOut.tag = "return"
                   /\ cOut.message = "Missing contract"
                   /\ Contains(cOut.description.s, A.s)

\* the message names 0X0b and then the token's address 0xc, with no multicall address,
\* and the classifier answered "Missing contract" naming 0X0b
C15_Witness ==
  /\ cIn.error.errorCode = UNINITIALIZED_CONTRACT
  /\ cIn.error.message = Str(<<"0", "X", "0", "b", "g", " ", "0", "x", "c">>)
  /\ cIn.tokenAddress = <<"0", "x", "c">>
  /\ cIn.multicallAddress = Undefined
  /\ cOut.tag = "return"
  /\ cOut.message = "Missing contract"
  /\ Contains(cOut.description.s, <<"0", "X", "0", "b">>)

NetworkCodes ==
  {NumCode(429), NumCode(502), StrCode(<<"4", "2", "9">>), StrCode(<<"5", "0", "2">>)}

\* C16 as claimed: an error whose code is neither the uninitialized-contract code nor
\* 429 or 502 is answered with "Error" and the raw message, and every error is answered
\* with exactly one of the five categories, by the precedence uninitialized contract,
\* network, generic (the TypeError of the classifier leaves an error without category).
C16_EveryErrorOneCategory ==
  cOut # NotCalled =>
    /\ (cIn.error.errorCode \notin NetworkCodes \cup {UNINITIALIZED_CONTRACT})
         => cOut = Returned("Error", cIn.error.message)
    /\ cOut.tag = "return"
    /\ cOut.message \in CategoryMessages
    /\ cOut.message \in {"Token not found", "No Multicall", "Missing contract"}
         <=> cIn.error.errorCode = UNINITIALIZED_CONTRACT
    /\ cOut.message = "Network error" <=> cIn.error.errorCode \in NetworkCodes

====
